---- MODULE Spec2Model ----
(***************************************************************************)
(* Smart Garden System: the three Arduino sketches of the repository.      *)
(*                                                                         *)
(*   "main"  : src/smart_garden.cpp (single zone, checked command parsing) *)
(*   "multi" : src/unnamed/part_000 lines 1-127 (three zones)              *)
(*   "basic" : src/unnamed/part_000 lines 129-302 (single zone, first      *)
(*             draft; the multi sketch uses its connectAWSIoT)             *)
(*                                                                         *)
(* One behaviour runs one sketch: setup(), then loop() forever.  The       *)
(* control position pc follows the single thread through loop(), the       *)
(* reconnect routine, the message callback and the blocking delay() the    *)
(* callback makes for a timed WATER_ON.                                    *)
(***************************************************************************)
EXTENDS Integers, FiniteSets, Sequences, TLC

(***************************************************************************)
(* Program constants                                                       *)
(***************************************************************************)
NUM_SENSORS == 3
PUMP_RELAY_PIN == 5
PUMP_PINS == (0 :> 5) @@ (1 :> 18) @@ (2 :> 19)
ZONE_NAMES == (0 :> "Vegetables") @@ (1 :> "Flowers") @@ (2 :> "Herbs")
DRY_THRESHOLD == (0 :> 2000) @@ (1 :> 2200) @@ (2 :> 1800)
WET_THRESHOLD == (0 :> 1000) @@ (1 :> 1100) @@ (2 :> 900)
AIR_VALUE == 3000
WATER_VALUE == 1000
BASIC_DRY_THRESHOLD == 2000
BASIC_WET_THRESHOLD == 1000
publishInterval == 60000
RETRY_DELAY_MS == 5000
ADC_MAX == 4095

(***************************************************************************)
(* Bounds of the model                                                     *)
(***************************************************************************)
\* quantum of the model clock: every step that takes time takes a whole
\* number of quanta; the clock is not advanced beyond MaxTicks quanta
TickMs == RETRY_DELAY_MS
MaxTicks == 13
MaxTime == MaxTicks * TickMs
\* successful connects per behaviour
MaxSessions == 2
\* durations of 0..MaxDur quanta, and one duration beyond 2^32 milliseconds
MaxDur == 2
BigDuration == 4294968

Sketches == {"main", "multi", "basic"}
Absent == "<absent>"
PinSet == {PUMP_PINS[i] : i \in 0..(NUM_SENSORS - 1)}

\* the zones a sketch senses and publishes
ZoneIdx(sk) == IF sk = "multi" THEN 0..(NUM_SENSORS - 1) ELSE {0}

\* the calibration pair <<dry, wet>> a sketch passes to map() for a zone
Calib(sk, i) ==
  CASE sk = "main"  -> <<AIR_VALUE, WATER_VALUE>>
    [] sk = "basic" -> <<BASIC_DRY_THRESHOLD, BASIC_WET_THRESHOLD>>
    [] OTHER        -> <<DRY_THRESHOLD[i], WET_THRESHOLD[i]>>

\* faulty variant of StatusPin: every zone reports the first relay
StatusPinFirst(sk, i) == PUMP_RELAY_PIN

\* the relay pin a sketch reads for a zone's pumpStatus
StatusPin(sk, i) == IF sk = "multi" THEN PUMP_PINS[i] ELSE PUMP_RELAY_PIN

(***************************************************************************)
(* Inbound command payloads.  ok = FALSE is a payload deserializeJson      *)
(* rejects; a field that is not in the document is Absent.                 *)
(***************************************************************************)
ActionStrings == {"WATER_ON", "WATER_OFF", "ALL_ON", "ALL_OFF", "STATUS", "water_on", Absent}
ZoneStrings == {"Vegetables", "Flowers", "Herbs", "vegetables", Absent}
Durations == {k * (TickMs \div 1000) : k \in 0..MaxDur} \cup {BigDuration}
Messages ==
  [ok : {TRUE}, action : ActionStrings, zone : ZoneStrings,
   hasDuration : {FALSE}, duration : {0}]
  \cup
  [ok : {TRUE}, action : {"WATER_ON", "ALL_ON", "ALL_OFF"}, zone : ZoneStrings,
   hasDuration : {TRUE}, duration : Durations]
  \cup
  [ok : {FALSE}, action : {Absent}, zone : {Absent},
   hasDuration : {FALSE}, duration : {0}]

RawSamples == {1500, ADC_MAX}

(***************************************************************************)
(* 32-bit arithmetic.  The sketches multiply in int / long, 32 bits wide   *)
(* on the ESP32 and ESP8266; a product that does not fit keeps its low 32  *)
(* bits.  Products are formed on 16-bit halves.                            *)
(***************************************************************************)
Low16(x) == x % 65536
High16(x) == x \div 65536

\* the low 32 bits of a * k as two 16-bit halves, for 0 <= a < 2^31, 0 <= k < 2^15
Mul32(a, k) ==
  LET p0 == Low16(a) * k
      p1 == High16(a) * k + High16(p0)
  IN  [hi |-> Low16(p1), lo |-> Low16(p0)]

\* two halves read as a signed 32-bit value
AsInt32(h) ==
  IF h.hi >= 32768 THEN (h.hi - 65536) * 65536 + h.lo ELSE h.hi * 65536 + h.lo

\* a * k in signed 32-bit arithmetic, for 0 <= k < 2^15
MulInt32(a, k) ==
  IF a >= 0 THEN AsInt32(Mul32(a, k))
  ELSE LET v == AsInt32(Mul32(-a, k))
       IN  IF v = -2147483647 - 1 THEN v ELSE -v

(***************************************************************************)
(* Calibration mapper: Arduino map() and constrain() on long               *)
(***************************************************************************)
Abs(a) == IF a < 0 THEN -a ELSE a

\* C integer division truncates toward zero
TruncDiv(a, b) ==
  LET q == Abs(a) \div Abs(b)
  IN  IF (a < 0) # (b < 0) THEN -q ELSE q

\* faulty variant of map: the input span is taken as a magnitude
mapAbsSpan(x, in_min, in_max, out_min, out_max) ==
  TruncDiv(MulInt32(x - in_min, out_max - out_min), Abs(in_max - in_min)) + out_min

\* (x - in_min) * (out_max - out_min) / (in_max - in_min) + out_min
map(x, in_min, in_max, out_min, out_max) ==
  TruncDiv(MulInt32(x - in_min, out_max - out_min), in_max - in_min) + out_min

\* faulty variant of constrain: the upper clamp is missing
constrainLowOnly(x, lo, hi) == IF x < lo THEN lo ELSE x

constrain(x, lo, hi) == IF x < lo THEN lo ELSE IF x > hi THEN hi ELSE x

Percent(rawValue, dry, wet) == constrain(map(rawValue, dry, wet, 0, 100), 0, 100)

(***************************************************************************)
(* delay(duration * 1000): the product is computed in int and passed as    *)
(* the 32-bit unsigned argument of delay().  The wait is kept as whole     *)
(* seconds and remaining milliseconds.                                     *)
(***************************************************************************)
DelayMillis(duration) ==
  LET h == Mul32(duration, 1000)
      t == (h.hi % 1000) * 65536 + h.lo
  IN  [sec |-> (h.hi \div 1000) * 65536 + (t \div 1000), ms |-> t % 1000]

\* elapsed >= wait, with elapsed in milliseconds
Reached(elapsed, wait) ==
  \/ elapsed \div 1000 > wait.sec
  \/ elapsed \div 1000 = wait.sec /\ elapsed % 1000 >= wait.ms

VARIABLES
  sketch,       \* which sketch runs
  pc,           \* position of the control thread
  pin,          \* output level of each relay pin
  connected,    \* client.connected()
  subIssued,    \* client.subscribe(command_topic) was called on this session
  subscribed,   \* the broker holds the command subscription of this session
  session,      \* number of successful connects so far
  now,          \* millis()
  lastPublish,  \* lastPublish
  hold,         \* the delay() in progress inside the callback
  indefinite,   \* pins turned on by a WATER_ON without duration, still on
  log,          \* what the last step printed on Serial
  out,          \* telemetry handed to client.publish by the last step
  probe         \* calibration probe (used by SpecCalib only)

vars == <<sketch, pc, pin, connected, subIssued, subscribed, session, now,
          lastPublish, hold, indefinite, log, out, probe>>

NoHold == [active |-> FALSE]
NoPub == [sent |-> FALSE]
NoProbe == [raw |-> 0, dry |-> 0, wet |-> 1, percent |-> -1]

(***************************************************************************)
(* Telemetry                                                               *)
(***************************************************************************)
\* the payload publishSensorData / publishMultiSensorData composes from the
\* pin levels p and the raw reading r of every sensor
Compose(sk, p, r) ==
  [i \in ZoneIdx(sk) |->
     [soilMoisture    |-> r,
      moisturePercent |-> Percent(r, Calib(sk, i)[1], Calib(sk, i)[2]),
      pumpStatus      |-> IF p[StatusPin(sk, i)] THEN "ON" ELSE "OFF"]]

\* client.publish(...) of a payload composed from the pin levels p; it
\* fails when the transport is down (conn = FALSE) and may fail otherwise
Publish(p, conn) ==
  \E r \in RawSamples, okay \in BOOLEAN :
    /\ (~conn => ~okay)
    /\ out' = [sent |-> TRUE, ok |-> okay, zones |-> Compose(sketch, p, r)]

Init ==
  /\ sketch \in Sketches
  /\ pc = "setup_connect"
  /\ pin = [p \in PinSet |-> FALSE]
  /\ connected = FALSE
  /\ subIssued = FALSE
  /\ subscribed = FALSE
  /\ session = 0
  /\ now = 0
  /\ lastPublish = 0
  /\ hold = NoHold
  /\ indefinite = {}
  /\ log = "starting"
  /\ out = NoPub
  /\ probe = NoProbe

(***************************************************************************)
(* connectAWSIoT: while (!client.connected()) { connect ... }              *)
(***************************************************************************)
AfterConnect == IF pc = "setup_connect" THEN "loop" ELSE "poll"

\* faulty variant of SubscribeOnConnect: the subscribe is made on the first connect only
SubscribeFirstConnectOnly ==
  /\ subIssued' = (session = 0)
  /\ subscribed' \in {b \in BOOLEAN : b => session = 0}

\* client.subscribe(command_topic); the result is at most logged
SubscribeOnConnect ==
  /\ subIssued' = TRUE
  /\ subscribed' \in BOOLEAN

\* client.connect() succeeded: subscribe, and (main) publish initial status
ConnectSuccess ==
  /\ pc \in {"setup_connect", "connect"}
  /\ ~connected
  /\ session < MaxSessions
  /\ connected' = TRUE
  /\ session' = session + 1
  /\ SubscribeOnConnect
  /\ log' = "connected"
  /\ IF sketch = "main" THEN Publish(pin, TRUE) ELSE out' = NoPub
  /\ pc' = AfterConnect
  /\ UNCHANGED <<sketch, pin, now, lastPublish, hold, indefinite, probe>>

\* faulty variant of ConnectFail: the routine gives up after a failed attempt
ConnectFailGivesUp ==
  /\ pc \in {"setup_connect", "connect"}
  /\ ~connected
  /\ now + RETRY_DELAY_MS <= MaxTime
  /\ now' = now + RETRY_DELAY_MS
  /\ pc' = AfterConnect
  /\ log' = "failed"
  /\ out' = NoPub
  /\ UNCHANGED <<sketch, pin, connected, subIssued, subscribed, session,
                 lastPublish, hold, indefinite, probe>>

\* client.connect() failed: delay(5000) and try again
ConnectFail ==
  /\ pc \in {"setup_connect", "connect"}
  /\ ~connected
  /\ now + RETRY_DELAY_MS <= MaxTime
  /\ now' = now + RETRY_DELAY_MS
  /\ log' = "failed, retrying in 5 seconds"
  /\ out' = NoPub
  /\ UNCHANGED <<sketch, pc, pin, connected, subIssued, subscribed, session,
                 lastPublish, hold, indefinite, probe>>

\* the transport loses the session (environment)
Drop ==
  /\ connected
  /\ pc # "crashed"
  /\ session < MaxSessions
  /\ connected' = FALSE
  /\ subIssued' = FALSE
  /\ subscribed' = FALSE
  /\ log' = ""
  /\ out' = NoPub
  /\ UNCHANGED <<sketch, pc, pin, session, now, lastPublish, hold,
                 indefinite, probe>>

(***************************************************************************)
(* loop()                                                                  *)
(***************************************************************************)
\* if (!client.connected()) connectAWSIoT();
LoopTop ==
  /\ pc = "loop"
  /\ pc' = IF connected THEN "poll" ELSE "connect"
  /\ log' = ""
  /\ out' = NoPub
  /\ UNCHANGED <<sketch, pin, connected, subIssued, subscribed, session, now,
                 lastPublish, hold, indefinite, probe>>

\* time passes between two iterations of a loop() that has no delay
Tick ==
  /\ pc = "loop"
  /\ sketch # "main"
  /\ now + TickMs <= MaxTime
  /\ now' = now + TickMs
  /\ log' = ""
  /\ out' = NoPub
  /\ UNCHANGED <<sketch, pc, pin, connected, subIssued, subscribed, session,
                 lastPublish, hold, indefinite, probe>>

\* faulty variant of Periodic: a failed publish switches every pump off
PeriodicFailSafeOff ==
  /\ pc = "periodic"
  /\ IF now - lastPublish > publishInterval
       THEN /\ Publish(pin, connected)
            /\ lastPublish' = now
            /\ pin' = IF out'.ok THEN pin ELSE [p \in PinSet |-> FALSE]
       ELSE out' = NoPub /\ lastPublish' = lastPublish /\ pin' = pin
  /\ pc' = IF sketch = "main" THEN "loop_delay" ELSE "loop"
  /\ log' = ""
  /\ UNCHANGED <<sketch, connected, subIssued, subscribed, session, now,
                 hold, indefinite, probe>>

\* if (millis() - lastPublish > publishInterval) { publish; lastPublish = millis(); }
Periodic ==
  /\ pc = "periodic"
  /\ IF now - lastPublish > publishInterval
       THEN Publish(pin, connected) /\ lastPublish' = now
       ELSE out' = NoPub /\ lastPublish' = lastPublish
  /\ pc' = IF sketch = "main" THEN "loop_delay" ELSE "loop"
  /\ log' = ""
  /\ UNCHANGED <<sketch, pin, connected, subIssued, subscribed, session, now,
                 hold, indefinite, probe>>

\* delay(10) at the end of the main sketch's loop(): at least 10 ms pass,
\* one clock quantum in the model
LoopDelay ==
  /\ pc = "loop_delay"
  /\ now + TickMs <= MaxTime
  /\ now' = now + TickMs
  /\ pc' = "loop"
  /\ log' = ""
  /\ out' = NoPub
  /\ UNCHANGED <<sketch, pin, connected, subIssued, subscribed, session,
                 lastPublish, hold, indefinite, probe>>

(***************************************************************************)
(* messageCallback                                                         *)
(***************************************************************************)
\* the document deserializeJson leaves: empty when the payload is rejected
Doc(m) ==
  IF m.ok THEN m
  ELSE [ok |-> FALSE, action |-> Absent, zone |-> Absent,
        hasDuration |-> FALSE, duration |-> 0]

\* upper/lower case folded away, for the strings of the model
FoldCase(a) ==
  CASE a = "water_on"   -> "WATER_ON"
    [] a = "vegetables" -> "Vegetables"
    [] OTHER            -> a

\* faulty variant of StrEq: the comparison ignores case
StrEqNoCase(a, b) == FoldCase(a) = FoldCase(b)

\* strcmp(a, b) == 0 on two non-null strings
StrEq(a, b) == a = b

\* faulty variant of FindZone: the index starts at 0 instead of -1
FindZoneOrFirst(zone) ==
  LET hits == {i \in 0..(NUM_SENSORS - 1) : StrEq(zone, ZONE_NAMES[i])}
  IN  IF hits = {} THEN 0
      ELSE CHOOSE i \in hits : \A j \in hits : i <= j

\* index of the first zone whose name equals zone, -1 when there is none
FindZone(zone) ==
  LET hits == {i \in 0..(NUM_SENSORS - 1) : StrEq(zone, ZONE_NAMES[i])}
  IN  IF hits = {} THEN -1
      ELSE CHOOSE i \in hits : \A j \in hits : i <= j

\* faulty variant of PumpPin: the index is off by one
PumpPinNext(i) == PUMP_PINS[(i + 1) % NUM_SENSORS]

\* the pump pin of a zone index
PumpPin(i) == PUMP_PINS[i]

\* faulty variant of AllPins: the loop writes LOW whatever the action
AllPinsLow(level) == [p \in PinSet |-> FALSE]

\* for (i = 0; i < NUM_SENSORS; i++) digitalWrite(PUMP_PINS[i], level)
AllPins(level) == [p \in PinSet |-> level]

CallbackFrame ==
  UNCHANGED <<sketch, connected, subIssued, subscribed, session, now,
              lastPublish, probe>>

\* strcmp() dereferences a null pointer: the program stops here
Crash ==
  /\ pc' = "crashed"
  /\ log' = "exception"
  /\ out' = NoPub
  /\ UNCHANGED <<pin, hold, indefinite>>

\* the callback returns early, without publishing
Return(line) ==
  /\ pc' = "periodic"
  /\ log' = line
  /\ out' = NoPub
  /\ UNCHANGED <<pin, hold, indefinite>>

\* faulty variant of Finish: the callback returns without publishing
FinishNoPublish(p, ind, line) ==
  /\ pin' = p
  /\ indefinite' = ind
  /\ hold' = NoHold
  /\ log' = line
  /\ out' = NoPub
  /\ pc' = "periodic"

\* the callback leaves the pins as p, publishes and returns
Finish(p, ind, line) ==
  /\ pin' = p
  /\ indefinite' = ind
  /\ hold' = NoHold
  /\ log' = line
  /\ Publish(p, connected)
  /\ pc' = "periodic"

\* digitalWrite(pinNo, HIGH), then the callback enters delay(duration * 1000)
StartDelay(pinNo, duration, line) ==
  /\ pin' = [pin EXCEPT ![pinNo] = TRUE]
  /\ indefinite' = indefinite
  /\ hold' = [active |-> TRUE, pin |-> pinNo, start |-> now,
              duration |-> duration, wait |-> DelayMillis(duration)]
  /\ log' = "pump ON"
  /\ out' = NoPub
  /\ pc' = "delay"

\* WATER_ON for one pin
WaterOn(pinNo, doc) ==
  IF doc.hasDuration
    THEN StartDelay(pinNo, doc.duration, "pump ON")
    ELSE Finish([pin EXCEPT ![pinNo] = TRUE], indefinite \cup {pinNo}, "pump ON")

\* faulty variant of WaterOff: the pin is written HIGH
WaterOffHigh(pinNo) ==
  Finish([pin EXCEPT ![pinNo] = TRUE], indefinite \ {pinNo}, "pump OFF")

\* WATER_OFF for one pin
WaterOff(pinNo) ==
  Finish([pin EXCEPT ![pinNo] = FALSE], indefinite \ {pinNo}, "pump OFF")

\* smart_garden.cpp
MainCallback(m) ==
  LET doc == Doc(m)
  IN  IF ~m.ok THEN Return("JSON parsing failed")
      ELSE IF doc.action = Absent THEN Return("No action specified in command")
      ELSE IF StrEq(doc.action, "WATER_ON") THEN WaterOn(PUMP_RELAY_PIN, doc)
      ELSE IF StrEq(doc.action, "WATER_OFF") THEN WaterOff(PUMP_RELAY_PIN)
      ELSE IF StrEq(doc.action, "STATUS")
        THEN Finish(pin, indefinite, "Status requested")
      ELSE Finish(pin, indefinite, "Unknown action")

\* first draft: no checks before strcmp(action, ...)
BasicCallback(m) ==
  LET doc == Doc(m)
  IN  IF doc.action = Absent
        THEN Crash \/ Finish(pin, indefinite, "")
      ELSE IF StrEq(doc.action, "WATER_ON") THEN WaterOn(PUMP_RELAY_PIN, doc)
      ELSE IF StrEq(doc.action, "WATER_OFF") THEN WaterOff(PUMP_RELAY_PIN)
      ELSE Finish(pin, indefinite, "")

\* multi-sensor sketch: the zone is looked up first, for every action
MultiCallback(m) ==
  LET doc == Doc(m)
      zoneIndex == FindZone(doc.zone)
  IN  IF doc.zone = Absent
        THEN Crash \/ Return("Zone not found: ")
      ELSE IF zoneIndex = -1 THEN Return("Zone not found: " \o doc.zone)
      ELSE IF doc.action = Absent
        THEN Crash \/ Finish(pin, indefinite, "")
      ELSE IF StrEq(doc.action, "WATER_ON") THEN WaterOn(PumpPin(zoneIndex), doc)
      ELSE IF StrEq(doc.action, "WATER_OFF") THEN WaterOff(PumpPin(zoneIndex))
      ELSE IF StrEq(doc.action, "ALL_ON")
        THEN Finish(AllPins(TRUE), indefinite, "All pumps ON")
      ELSE IF StrEq(doc.action, "ALL_OFF")
        THEN Finish(AllPins(FALSE), {}, "All pumps OFF")
      ELSE Finish(pin, indefinite, "")

Callback(m) ==
  /\ CASE sketch = "main"  -> MainCallback(m)
       [] sketch = "basic" -> BasicCallback(m)
       [] OTHER            -> MultiCallback(m)
  /\ CallbackFrame

\* client.loop() with nothing to deliver
PollIdle ==
  /\ pc = "poll"
  /\ pc' = "periodic"
  /\ log' = ""
  /\ out' = NoPub
  /\ UNCHANGED <<sketch, pin, connected, subIssued, subscribed, session, now,
                 lastPublish, hold, indefinite, probe>>

\* client.loop() delivers one command of the subscription to the callback
PollDeliver ==
  /\ pc = "poll"
  /\ connected
  /\ subscribed
  /\ \E m \in Messages : Callback(m)

\* delay() keeps waiting
DelayTick ==
  /\ pc = "delay"
  /\ ~Reached(now - hold.start, hold.wait)
  /\ now + TickMs <= MaxTime
  /\ now' = now + TickMs
  /\ log' = ""
  /\ out' = NoPub
  /\ UNCHANGED <<sketch, pc, pin, connected, subIssued, subscribed, session,
                 lastPublish, hold, indefinite, probe>>

\* delay() returns: digitalWrite(pin, LOW), then the callback publishes
DelayReturn ==
  /\ pc = "delay"
  /\ Reached(now - hold.start, hold.wait)
  /\ Finish([pin EXCEPT ![hold.pin] = FALSE], indefinite \ {hold.pin},
            "pump OFF after duration")
  /\ CallbackFrame

Next ==
  \/ ConnectSuccess
  \/ ConnectFail
  \/ Drop
  \/ LoopTop
  \/ Tick
  \/ PollIdle
  \/ PollDeliver
  \/ DelayTick
  \/ DelayReturn
  \/ Periodic
  \/ LoopDelay

Spec == Init /\ [][Next]_vars

\* the broker accepts a connect attempt sooner or later
SpecLive == Spec /\ WF_vars(ConnectSuccess)

TypeOK ==
  /\ sketch \in Sketches
  /\ pc \in {"setup_connect", "connect", "loop", "poll", "periodic",
             "loop_delay", "delay", "crashed"}
  /\ pin \in [PinSet -> BOOLEAN]
  /\ now \in 0..MaxTime
  /\ indefinite \subseteq {p \in PinSet : pin[p]}

(***************************************************************************)
(* The calibration mapper on its own: every raw value in the probe range   *)
(* against every calibration pair of the sketches, in both orientations.   *)
(***************************************************************************)
\* raw values probed: RawSpan beyond both ends of the ADC range, and the
\* values around the first one whose offset from dry, times 100, does not
\* fit a 32-bit long
RawSpan == 200
LONG_MAX == 2147483647
FirstOverflow == (LONG_MAX \div 100) + 1
ProbeRaws(dry) ==
  ((0 - RawSpan)..(ADC_MAX + RawSpan))
  \cup {dry + k : k \in (FirstOverflow - 2)..FirstOverflow}
  \cup {dry - k : k \in (FirstOverflow - 2)..FirstOverflow}

CodePairs ==
  {<<AIR_VALUE, WATER_VALUE>>, <<BASIC_DRY_THRESHOLD, BASIC_WET_THRESHOLD>>}
  \cup {<<DRY_THRESHOLD[i], WET_THRESHOLD[i]>> : i \in 0..(NUM_SENSORS - 1)}
CalibPairs == CodePairs \cup {<<c[2], c[1]>> : c \in CodePairs}

InitCalib ==
  /\ sketch = "main"
  /\ pc = "calib"
  /\ pin = [p \in PinSet |-> FALSE]
  /\ connected = FALSE
  /\ subIssued = FALSE
  /\ subscribed = FALSE
  /\ session = 0
  /\ now = 0
  /\ lastPublish = 0
  /\ hold = NoHold
  /\ indefinite = {}
  /\ log = ""
  /\ out = NoPub
  /\ \E c \in CalibPairs : \E r \in ProbeRaws(c[1]) :
       probe = [raw |-> r, dry |-> c[1], wet |-> c[2], percent |-> -1]

\* percent = constrain(map(raw, dry, wet, 0, 100), 0, 100)
Measure ==
  /\ pc = "calib"
  /\ probe.percent = -1
  /\ probe' = [probe EXCEPT !.percent = Percent(probe.raw, probe.dry, probe.wet)]
  /\ UNCHANGED <<sketch, pc, pin, connected, subIssued, subscribed, session,
                 now, lastPublish, hold, indefinite, log, out>>

NextCalib == Measure

SpecCalib == InitCalib /\ [][NextCalib]_vars

(***************************************************************************)
(* Properties                                                              *)
(***************************************************************************)
\* a step of loop() outside the callback
LoopStep == LoopTop \/ PollIdle \/ PollDeliver \/ Periodic \/ LoopDelay

\* the zone name the multi sketch gives a pin
NameOfPin(p) == ZONE_NAMES[CHOOSE i \in 0..(NUM_SENSORS - 1) : PUMP_PINS[i] = p]

\* C1: while a zone is on under a timed WATER_ON that has not expired yet,
\* the control thread is at a position of loop() from which it polls the
\* transport, delivers another command or publishes periodic telemetry.
C1_TimedOnDoesNotBlock ==
  (hold.active /\ pin[hold.pin]) => ENABLED LoopStep

\* C2: a zone turned on by WATER_ON with duration d at t0 is not turned off
\* before t0 + d, and once t0 + d is reached the control thread spends no
\* further time before it turns the zone off.
C2_TimedOnLastsDuration ==
  [][/\ (hold.active /\ pin[hold.pin] /\ ~pin'[hold.pin])
          => (now' - hold.start) \div 1000 >= hold.duration
     /\ (hold.active /\ (now - hold.start) \div 1000 >= hold.duration)
          => (now' = now)]_vars

\* the step applies an explicit OFF to pin p: WATER_OFF for its zone, or ALL_OFF
ExplicitOff(p) ==
  /\ pc = "poll"
  /\ \E m \in Messages :
       /\ m.ok
       /\ \/ m.action = "ALL_OFF"
          \/ m.action = "WATER_OFF" /\ (sketch = "multi" => m.zone = NameOfPin(p))
       /\ Callback(m)

\* the step is the expiry of a timed WATER_ON for pin p
TimedExpiry(p) == pc = "delay" /\ hold.active /\ hold.pin = p

\* C3 (as stated): a zone turned on by WATER_ON without duration is turned
\* off only by a step that applies WATER_OFF for that zone or ALL_OFF.
C3_OffOnlyByExplicitOff ==
  [][\A p \in indefinite : ~pin'[p] => ExplicitOff(p)]_vars

\* C3 (amended): a zone turned on by WATER_ON without duration is turned off
\* only by WATER_OFF for that zone, by ALL_OFF, or by the expiry of a later
\* WATER_ON with duration for that zone.
C3_OffOnlyByOffOrExpiry ==
  [][\A p \in indefinite : ~pin'[p] => (ExplicitOff(p) \/ TimedExpiry(p))]_vars

\* C3 witness: a zone turned on without duration is still on after a
\* reconnect and a periodic publish.
C3_Witness ==
  \E p \in indefinite : pin[p] /\ session >= 2 /\ lastPublish > 0

\* C4: in the multi sketch every delivered ALL_OFF leaves every pump off,
\* whatever its zone field is: no step that leaves a pump on is the
\* handling of an ALL_OFF.
C4_AllOffTurnsEveryPumpOff ==
  [][(sketch = "multi" /\ pc = "poll" /\ \E p \in PinSet : pin'[p])
       => \A m \in Messages :
            (m.ok /\ m.action = "ALL_OFF") => ~Callback(m)]_vars

\* C5: no command payload stops the program.
C5_NoCommandIsFatal == pc # "crashed"

\* C6: every callback that returns has handed a telemetry payload to
\* client.publish.
C6_EveryCommandPublishes ==
  [][((PollDeliver \/ DelayReturn) /\ pc' = "periodic") => out'.sent]_vars

\* C7: in the multi sketch a WATER_ON or WATER_OFF whose zone string equals
\* no zone name leaves every pump pin as it was: no step that changes a pin
\* is the handling of such a command.
C7_UnknownZoneChangesNothing ==
  [][(sketch = "multi" /\ pc = "poll" /\ pin' # pin)
       => \A m \in Messages :
            (m.ok /\ m.action \in {"WATER_ON", "WATER_OFF"}
               /\ m.zone \notin ({Absent} \cup {ZONE_NAMES[i] : i \in 0..(NUM_SENSORS - 1)}))
            => ~Callback(m)]_vars

\* C7 witness: an unknown zone was rejected while a pump was on.
C7_Witness ==
  /\ sketch = "multi"
  /\ log = "Zone not found: vegetables"
  /\ \E p \in PinSet : pin[p]

\* the action strings a sketch's callback names
Recognized(sk) ==
  CASE sk = "main"  -> {"WATER_ON", "WATER_OFF", "STATUS"}
    [] sk = "basic" -> {"WATER_ON", "WATER_OFF"}
    [] OTHER        -> {"WATER_ON", "WATER_OFF", "ALL_ON", "ALL_OFF"}

C9_SubscribeBeforePoll ==
  (pc = "poll" /\ connected) => subIssued

\* C9 witness: about to poll on a session that was connected after a drop.
C9_Witness ==
  pc = "poll" /\ connected /\ subIssued /\ session >= 2

\* one raw step from r toward the wet calibration value
Toward(r, dry, wet) == IF wet > dry THEN r + 1 ELSE r - 1

\* the result is in 0..100 and does not decrease one step toward wet
BoundedMonotone ==
  /\ probe.percent \in 0..100
  /\ Percent(Toward(probe.raw, probe.dry, probe.wet), probe.dry, probe.wet)
       >= probe.percent

\* (raw - dry) * 100 fits a 32-bit long, for raw and for its two neighbours
ProductFits == Abs(probe.raw - probe.dry) < LONG_MAX \div 100

C11_AnchoredInterpolation ==
  probe.percent # -1 =>
    /\ (probe.raw = probe.dry => probe.percent = 0)
    /\ (probe.raw = probe.wet => probe.percent = 100)
    /\ (2 * probe.raw = probe.dry + probe.wet => probe.percent = 50)

\* C11 witness: the midpoint 1350 of the pair (1800, 900) was mapped to 50.
C11_Witness ==
  /\ probe.dry = 1800 /\ probe.wet = 900
  /\ probe.raw = 1350
  /\ probe.percent = 50

\* C12: in the main sketch, the one with a STATUS action, the handling of a
\* STATUS request leaves every pump pin as it was and hands a telemetry
\* payload to client.publish in the same step, with no time passing and
\* whatever the time since the last periodic publish: no step that changes
\* a pin, publishes nothing or takes time is the handling of a STATUS.
C12_StatusPublishesNow ==
  [][(sketch = "main" /\ pc = "poll"
        /\ (pin' # pin \/ hold' # hold \/ ~out'.sent \/ now' # now))
       => \A m \in Messages :
            (m.ok /\ m.action = "STATUS") => ~Callback(m)]_vars

\* C12 witness: a STATUS request was answered with a payload while the pump
\* was on and the publish interval had not elapsed.
C12_Witness ==
  /\ sketch = "main"
  /\ log = "Status requested"
  /\ out.sent
  /\ pin[PUMP_RELAY_PIN]
  /\ now - lastPublish <= publishInterval

\* the step is the handling of a WATER_ON or ALL_ON command
AppliesOn ==
  /\ pc = "poll"
  /\ \E m \in Messages :
       m.ok /\ m.action \in {"WATER_ON", "ALL_ON"} /\ Callback(m)

\* C13: after setup every pump pin is off and no timed wait is in progress,
\* and a pump pin goes from off to on, or a timed wait begins, only in a
\* step that handles a WATER_ON or ALL_ON command: no other step of loop(),
\* no periodic publish and no reconnect turns a pump on.
C13_OffUntilFirstOn ==
  /\ (\A p \in PinSet : ~pin[p]) /\ ~hold.active /\ indefinite = {}
  /\ [][((\E p \in PinSet : ~pin[p] /\ pin'[p]) \/ (~hold.active /\ hold'.active))
          => AppliesOn]_vars

\* C13 witness: every pump is off and no wait is pending right after a
\* periodic publish on a session that followed a reconnect.
C13_Witness ==
  /\ \A p \in PinSet : ~pin[p]
  /\ ~hold.active
  /\ session >= 2
  /\ out.sent /\ lastPublish = now /\ now > publishInterval

\* the level of zone i's pump in the pin levels p
ZoneLevel(sk, i, p) == IF sk = "multi" THEN p[PUMP_PINS[i]] ELSE p[PUMP_RELAY_PIN]

\* C14: a command is taken up only when no earlier command is still being
\* handled, so commands are applied one after the other in the order of
\* their delivery; and every telemetry payload published by a step reports,
\* for every zone, the level the zone's pump has after that step.
C14_TelemetryReflectsCommand ==
  [][/\ (pc = "poll" => ~hold.active)
     /\ (out'.sent =>
           \A i \in ZoneIdx(sketch) :
             out'.zones[i].pumpStatus
               = (IF ZoneLevel(sketch, i, pin') THEN "ON" ELSE "OFF"))]_vars

\* C14 witness: the payload published for a WATER_ON of the second zone
\* reports that zone on and the first zone off.
C14_Witness ==
  /\ sketch = "multi"
  /\ log = "pump ON"
  /\ out.sent
  /\ out.zones[1].pumpStatus = "ON"
  /\ out.zones[0].pumpStatus = "OFF"

\* C15: in the multi sketch the handling of an ALL_ON that carries a
\* duration leaves every pump on and starts no timed wait, and the handling
\* of an ALL_OFF that carries a duration starts no timed wait either.
C15_BulkIgnoresDuration ==
  [][(sketch = "multi" /\ pc = "poll")
       => \A m \in Messages :
            (m.ok /\ m.hasDuration /\ m.action \in {"ALL_ON", "ALL_OFF"}
               /\ Callback(m))
            => /\ ~hold'.active
               /\ (m.action = "ALL_ON" => \A p \in PinSet : pin'[p])]_vars

\* C16: a periodic publish that fails leaves every pump pin, the timed wait
\* and the session as they were and is not repeated: lastPublish is set as
\* for a publish that succeeded, so the next periodic publish is a full
\* interval away; and a payload published by the step after a failed
\* publish is composed from the pin levels of that step and a reading taken
\* in it, not the payload that failed.
C16_FailedPublishChangesNothing ==
  [][/\ (pc = "periodic" /\ out'.sent /\ ~out'.ok)
          => /\ pin' = pin /\ hold' = hold /\ indefinite' = indefinite
             /\ connected' = connected /\ session' = session
             /\ lastPublish' = now
     /\ (out.sent /\ ~out.ok /\ out'.sent)
          => \E r \in RawSamples : out'.zones = Compose(sketch, pin', r)]_vars

\* C16 witness: a periodic publish has just failed on a connected session
\* while a pump was on.
C16_Witness ==
  /\ pc \in {"loop", "loop_delay"}
  /\ out.sent /\ ~out.ok
  /\ connected
  /\ lastPublish = now /\ now > publishInterval
  /\ \E p \in PinSet : pin[p]

\* the zone names of the multi sketch, and the pin wired to a named zone
ZoneNameSet == {ZONE_NAMES[i] : i \in 0..(NUM_SENSORS - 1)}
PinOfName(z) == PUMP_PINS[CHOOSE i \in 0..(NUM_SENSORS - 1) : ZONE_NAMES[i] = z]

\* C17: in the multi sketch the handling of a WATER_ON or WATER_OFF for
\* zone Z leaves the pump pin of every other zone as it was, a timed wait
\* it starts is a wait for Z's pin, and neither the wait nor its expiry
\* changes the pin of any other zone.
C17_SingleZoneFrame ==
  [][/\ (sketch = "multi" /\ pc = "poll" /\ (pin' # pin \/ hold'.active))
          => \A m \in Messages :
               (m.ok /\ m.action \in {"WATER_ON", "WATER_OFF"}
                  /\ m.zone \in ZoneNameSet /\ Callback(m))
               => /\ \A p \in PinSet \ {PinOfName(m.zone)} : pin'[p] = pin[p]
                  /\ (hold'.active => hold'.pin = PinOfName(m.zone))
     /\ (sketch = "multi" /\ pc = "delay")
          => \A p \in PinSet \ {hold.pin} : pin'[p] = pin[p]]_vars

\* C17 witness: a timed WATER_ON of one zone has expired and the pump of
\* another zone, on before it, is still on.
C17_Witness ==
  /\ sketch = "multi"
  /\ log = "pump OFF after duration"
  /\ \E p \in PinSet : pin[p]

\* C18: the wait of every timed WATER_ON in progress is the command's
\* duration in whole seconds: duration * 1000 milliseconds, not a value
\* that wrapped around.
C18_WaitEqualsDuration ==
  hold.active => hold.wait = [sec |-> hold.duration, ms |-> 0]

\* the control thread is inside connectAWSIoT
InConnect == pc \in {"setup_connect", "connect"}

\* C19: while the control thread is inside connectAWSIoT no pump pin, timed
\* wait or lastPublish changes and nothing is published; every failed
\* attempt is followed by the same wait of RETRY_DELAY_MS; the routine is
\* left only by an attempt that succeeded, with the transport connected,
\* so it polls and publishes nothing before that; and if an attempt
\* succeeds sooner or later, the routine is left with the transport
\* connected.
C19_ReconnectRetriesUntilConnected ==
  /\ [][InConnect =>
          /\ pin' = pin /\ hold' = hold /\ indefinite' = indefinite
          /\ lastPublish' = lastPublish
          /\ (pc' # pc => (connected' /\ pc' \in {"loop", "poll"}))
          /\ (pc' = pc => (~connected' /\ ~out'.sent
                             /\ now' = now + RETRY_DELAY_MS))]_vars
  /\ (InConnect ~> (connected /\ pc \in {"loop", "poll"}))

\* C19 witness: an attempt to reconnect after a drop has failed and the
\* routine is still retrying, with a pump on.
C19_Witness ==
  /\ pc = "connect"
  /\ session >= 1
  /\ log = "failed, retrying in 5 seconds"
  /\ \E p \in PinSet : pin[p]

====
